---- MODULE Spec2Model ----
(***************************************************************************)
(* Model of flask_request_response_processor:                              *)
(*   Processor.py  FlaskRequestResponseProcessor (constructor, init_app,   *)
(*                 the before_request / after_request hooks, the callback  *)
(*                 registration decorator)                                 *)
(*   Formatter.py  FlaskRequestFormatter / FlaskResponseFormatter          *)
(*                                                                         *)
(* Python values are records [type, val]; val is always a sequence of      *)
(* integers so that values of different Python types stay comparable.      *)
(* Strings that the code only concatenates and strips (the configuration   *)
(* prefix and labels) are sequences of tokens, " " being whitespace.       *)
(***************************************************************************)
EXTENDS Integers, Sequences, FiniteSets, TLC

\* ------------------------------------------------------------------ bounds
NumRequests == 2
MaxRegistrations == 2

Requests == 1..NumRequests

\* ------------------------------------------------------- Python data model
None == "None"
NoneValue == [type |-> "NoneType", val |-> <<>>]
PyList(s) == [type |-> "list", val |-> s]
PyTuple(s) == [type |-> "tuple", val |-> s]
PyBool(b) == [type |-> "bool", val |-> IF b THEN <<1>> ELSE <<0>>]
PyInt(i) == [type |-> "int", val |-> <<i>>]
PyStr(s) == [type |-> "str", val |-> s]

\* Status codes the routes of the application answer with.
StatusCodes == {200, 500, 503}

\* Functions the application may register as callback.
Callbacks == {"f1", "f2"}

\* What a call of the registered function does: return, or raise.
NoExc == "none"
Outcomes == {NoExc, "Exception", "KeyboardInterrupt"}

\* Python's exception hierarchy, as far as the handlers of the code name it.
ExceptionSubclasses ==
  {"Exception", "AttributeError", "RuntimeError", "ValueError",
   "UnicodeDecodeError", "UnicodeEncodeError", "JSONDecodeError"}
ValueErrorSubclasses ==
  {"ValueError", "UnicodeDecodeError", "UnicodeEncodeError", "JSONDecodeError"}
IsInstance(exc, cls) ==
  CASE cls = "BaseException" -> exc # NoExc
    [] cls = "Exception" -> exc \in ExceptionSubclasses
    [] cls = "ValueError" -> exc \in ValueErrorSubclasses
    [] OTHER -> exc = cls

\* ---------------------------------------------------------------- strings
Whitespace == " "
DefaultPrefix == <<"REQUEST_RESPONSE_PROCESSOR">>

RECURSIVE LStrip(_)
LStrip(s) ==
  IF s # <<>> /\ Head(s) = Whitespace THEN LStrip(Tail(s)) ELSE s

RECURSIVE RStrip(_)
RStrip(s) ==
  IF s # <<>> /\ s[Len(s)] = Whitespace
  THEN RStrip(SubSeq(s, 1, Len(s) - 1)) ELSE s

\* str.strip()
Strip(s) == RStrip(LStrip(s))

\* ------------------------------------------------------------------ state
VARIABLES
  prefix,                           \* the constructor's prefix argument
  config,                           \* app.config
  label_status_codes,               \* self.__label_status_codes__
  label_status_codes_exclude_only,  \* self.__label_status_codes_exclude_only_
  filter_status_codes,              \* closure variable of init_app
  filter_status_codes_exclude_only, \* closure variable of init_app
  filter_status_codes_empty,        \* closure variable of init_app
  process_request_response_f,       \* self.__process_request_response_f__
  g,                                \* flask.g.frr_start_time, per context
  now,                              \* position of the next datetime.utcnow()
  phase,                            \* per request: "new", "pending" (or
                                    \* "skipped": no before-hook), "completed"
  ncalls,                           \* per request: calls of the callback
  last,                             \* the latest run of after_request
  lastRegistered,                   \* history: the latest function registered
  nregs,                            \* history: number of registrations
  recorded,                         \* history: what each before-hook read
  fmt,                              \* the formatter under test and its object
  cache,                            \* names of the cached_property values held
  access                            \* the latest property access and its result

procVars ==
  <<prefix, config, label_status_codes, label_status_codes_exclude_only,
    filter_status_codes, filter_status_codes_exclude_only,
    filter_status_codes_empty, process_request_response_f, g, now, phase,
    ncalls, last, lastRegistered, nregs, recorded>>
fmtVars == <<fmt, cache, access>>
vars == <<procVars, fmtVars>>


\* ------------------------------------------------- Processor.py: __init__
\* prefix = prefix.strip(); if prefix == '': prefix = 'REQUEST_RESPONSE_PROCESSOR'
CtorPrefix(p) ==
  LET stripped == Strip(p)
  IN  IF stripped = <<>> THEN DefaultPrefix ELSE stripped

LabelStatusCodes(p) == CtorPrefix(p) \o <<"_STATUS_CODES">>
LabelStatusCodesExcludeOnly(p) == CtorPrefix(p) \o <<"_STATUS_CODES_EXCLUDE_ONLY">>

\* ------------------------------------------------- Processor.py: init_app
\* app.config.get(key): the value, or None when the key is absent
ConfigGet(cfg, key) == IF key \in DOMAIN cfg THEN cfg[key] ELSE NoneValue

InitStatusCodesNoneOnly(v) == IF v.type = "NoneType" THEN <<>> ELSE v.val
\* if type(filter_status_codes) != list: filter_status_codes = []
InitStatusCodes(v) == IF v.type # "list" THEN <<>> ELSE v.val

\* if type(filter_status_codes_exclude_only) != bool: ... = False
InitExcludeOnly(v) == IF v.type # "bool" THEN FALSE ELSE v.val = <<1>>

\* filter_status_codes_empty = len(filter_status_codes) == 0
InitEmpty(codes) == Len(codes) = 0

\* response.status_code in filter_status_codes
InList(code, codes) == \E i \in 1..Len(codes) : codes[i] = code

process_func_same(status_code) ==
  IF filter_status_codes_empty = TRUE
  THEN TRUE
  ELSE InList(status_code, filter_status_codes) = filter_status_codes_exclude_only
\* process_func = True if filter_status_codes_empty is True
\*     else (response.status_code in filter_status_codes) != filter_status_codes_exclude_only
process_func(status_code) ==
  IF filter_status_codes_empty = TRUE
  THEN TRUE
  ELSE InList(status_code, filter_status_codes) # filter_status_codes_exclude_only

\* --------------------------------------------------------- request context
NoTime == -1
NoResponse == [id |-> 0, status_code |-> 0]
Response(r, s) == [id |-> r, status_code |-> s]

ContextShared(r) == 1
\* flask.g belongs to the application context pushed for the request: each
\* request in flight has its own
Context(r) == r

HandlerClassException == "Exception"
\* except BaseException as error:
HandlerClass == "BaseException"

RegisterFirstWins(old, f) == IF old = None THEN f ELSE old
\* self.__process_request_response_f__ = f
Register(old, f) == f

DispatchRetry(pf, f, start, outcome) ==
  IF pf = TRUE /\ f # None
  THEN IF start = NoTime
       THEN [calls |-> 0, raised |-> "AttributeError"]
       ELSE [calls |-> IF outcome = NoExc THEN 1 ELSE 2, raised |-> outcome]
  ELSE [calls |-> 0, raised |-> NoExc]
DispatchDefaultStart(pf, f, start, outcome) ==
  IF pf = TRUE /\ f # None
  THEN [calls |-> 1, raised |-> outcome]
  ELSE [calls |-> 0, raised |-> NoExc]
\* The body of "if process_func is True: try: ..." : how often the registered
\* function is called and what the try block raises.  The arguments of the
\* call are evaluated first, so a missing g.frr_start_time raises
\* AttributeError before the function is entered.
Dispatch(pf, f, start, outcome) ==
  IF pf = TRUE
  THEN IF f # None
       THEN IF start = NoTime
            THEN [calls |-> 0, raised |-> "AttributeError"]
            ELSE [calls |-> 1, raised |-> outcome]
       ELSE [calls |-> 0, raised |-> NoExc]
  ELSE [calls |-> 0, raised |-> NoExc]

NoRun ==
  [r |-> 0, status |-> 0, slot |-> None, gstart |-> NoTime, calls |-> 0,
   fn |-> None, start_arg |-> NoTime, end_arg |-> NoTime, raised |-> NoExc,
   propagated |-> NoExc, logged |-> 0, returned |-> NoResponse, nregs |-> 0]

\* ----------------------------------------------------------- configurations
Absent == [type |-> "absent", val |-> <<>>]

\* app.config with the two filter keys written under the prefix `owner`
AppConfig(owner, sv, ev) ==
  LET ks == owner \o <<"_STATUS_CODES">>
      ke == owner \o <<"_STATUS_CODES_EXCLUDE_ONLY">>
      keys == (IF sv = Absent THEN {} ELSE {ks}) \cup (IF ev = Absent THEN {} ELSE {ke})
  IN  [k \in keys |-> IF k = ks THEN sv ELSE ev]

TypedStatusValues == {PyList(<<>>), PyList(<<500, 503>>), PyList(<<200>>)}
TypedExcludeValues == {PyBool(TRUE), PyBool(FALSE)}

AnyStatusValues ==
  TypedStatusValues \cup
  {Absent, NoneValue, PyTuple(<<500, 503>>), PyInt(500), PyStr(<<53, 48, 48>>)}
AnyExcludeValues ==
  TypedExcludeValues \cup {Absent, PyInt(1), PyStr(<<116, 114, 117, 101>>)}

Prefixes ==
  {DefaultPrefix, <<>>, <<Whitespace, Whitespace>>, <<"MYAPP">>,
   <<Whitespace, "MYAPP", Whitespace>>}
Owners == {DefaultPrefix, <<"MYAPP">>}

\* ------------------------------------------------------------ formatter idle
NoFormatter ==
  [kind |-> "none", query |-> <<>>, headers |-> <<>>, body |-> <<>>,
   ctype |-> "", passthrough |-> FALSE]
NoAccess == [prop |-> "none", result |-> NoneValue, raised |-> NoExc]

FmtIdle ==
  /\ fmt = NoFormatter
  /\ cache = {}
  /\ access = NoAccess

\* ------------------------------------------------------------------- Init
\* The state after FlaskRequestResponseProcessor(app=app, prefix=p):
\* __init__ computes the labels and calls init_app, which reads the filter.
Constructed(p, cfg) ==
  /\ prefix = p
  /\ config = cfg
  /\ label_status_codes = LabelStatusCodes(p)
  /\ label_status_codes_exclude_only = LabelStatusCodesExcludeOnly(p)
  /\ filter_status_codes = InitStatusCodes(ConfigGet(cfg, LabelStatusCodes(p)))
  /\ filter_status_codes_exclude_only =
       InitExcludeOnly(ConfigGet(cfg, LabelStatusCodesExcludeOnly(p)))
  /\ filter_status_codes_empty =
       InitEmpty(InitStatusCodes(ConfigGet(cfg, LabelStatusCodes(p))))
  /\ process_request_response_f = None
  /\ g = [c \in Requests |-> NoTime]
  /\ now = 0
  /\ phase = [r \in Requests |-> "new"]
  /\ ncalls = [r \in Requests |-> 0]
  /\ last = NoRun
  /\ lastRegistered = None
  /\ nregs = 0
  /\ recorded = [r \in Requests |-> NoTime]

\* test.py: a well-typed filter under the default prefix
Init ==
  /\ \E sv \in TypedStatusValues, ev \in TypedExcludeValues :
       Constructed(DefaultPrefix, AppConfig(DefaultPrefix, sv, ev))
  /\ FmtIdle

\* any prefix, and any value (or none) under the two keys
InitCfg ==
  /\ \E p \in Prefixes, owner \in Owners,
        sv \in AnyStatusValues, ev \in AnyExcludeValues :
       Constructed(p, AppConfig(owner, sv, ev))
  /\ FmtIdle

\* ---------------------------------------------------------------- actions
filterVars ==
  <<prefix, config, label_status_codes, label_status_codes_exclude_only,
    filter_status_codes, filter_status_codes_exclude_only,
    filter_status_codes_empty>>

\* @response_handler.process_request_response
process_request_response(f) ==
  /\ nregs < MaxRegistrations
  /\ process_request_response_f' = Register(process_request_response_f, f)
  /\ lastRegistered' = f
  /\ nregs' = nregs + 1
  /\ UNCHANGED <<filterVars, g, now, phase, ncalls, last, recorded, fmtVars>>

\* @app.before_request: g.frr_start_time = datetime.utcnow()
before_request(r) ==
  /\ phase[r] = "new"
  /\ g' = [g EXCEPT ![Context(r)] = now]
  /\ recorded' = [recorded EXCEPT ![r] = now]
  /\ now' = now + 1
  /\ phase' = [phase EXCEPT ![r] = "pending"]
  /\ UNCHANGED <<filterVars, process_request_response_f, ncalls, last,
                 lastRegistered, nregs, fmtVars>>

\* Flask skips the remaining before_request functions of a request when an
\* earlier one (of another extension) answers it, and still runs every
\* after_request function.
before_request_skipped(r) ==
  /\ phase[r] = "new"
  /\ phase' = [phase EXCEPT ![r] = "skipped"]
  /\ UNCHANGED <<filterVars, process_request_response_f, g, now, ncalls, last,
                 lastRegistered, nregs, recorded, fmtVars>>

\* @app.after_request, the whole handler, for the response of request r
after_request(r, response, outcome) ==
  /\ phase[r] \in {"pending", "skipped"}
  /\ LET end_time == now
         start == g[Context(r)]
         f == process_request_response_f
         d == Dispatch(process_func(response.status_code), f, start, outcome)
         caught == d.raised # NoExc /\ IsInstance(d.raised, HandlerClass)
         propagated == IF d.raised # NoExc /\ ~caught THEN d.raised ELSE NoExc
     IN  /\ last' =
              [r |-> r, status |-> response.status_code, slot |-> f,
               gstart |-> start, calls |-> d.calls,
               fn |-> IF d.calls > 0 THEN f ELSE None,
               start_arg |-> IF d.calls > 0 THEN start ELSE NoTime,
               end_arg |-> IF d.calls > 0 THEN end_time ELSE NoTime,
               raised |-> d.raised,
               propagated |-> propagated,
               logged |-> IF caught THEN 1 ELSE 0,
               returned |-> IF propagated = NoExc THEN response ELSE NoResponse,
               nregs |-> nregs]
         /\ ncalls' = [ncalls EXCEPT ![r] = @ + d.calls]
  /\ now' = now + 1
  /\ phase' = [phase EXCEPT ![r] = "completed"]
  /\ UNCHANGED <<filterVars, process_request_response_f, g, lastRegistered,
                 nregs, recorded, fmtVars>>

Next ==
  \/ \E f \in Callbacks : process_request_response(f)
  \/ \E r \in Requests : before_request(r)
  \/ \E r \in Requests, s \in StatusCodes, o \in Outcomes :
       after_request(r, Response(r, s), o)

Spec == Init /\ [][Next]_vars

\* one application whose other extensions may answer a request early
NextShort ==
  \/ Next
  \/ \E r \in Requests : before_request_skipped(r)

SpecShort == Init /\ [][NextShort]_vars

\* every configuration, serving its first request
NextCfg ==
  \/ \E f \in Callbacks : process_request_response(f)
  \/ before_request(1)
  \/ \E s \in StatusCodes, o \in Outcomes : after_request(1, Response(1, s), o)

SpecCfg == InitCfg /\ [][NextCfg]_vars


\* ------------------------------------------------------------- evaluation
\* The result of evaluating a Python expression: a value, or an exception.
Ret(v) == [raised |-> NoExc, value |-> v]
Raise(e) == [raised |-> e, value |-> NoneValue]
\* try: e   except cls: fallback
TryExcept(e, cls, fallback) ==
  IF e.raised # NoExc /\ IsInstance(e.raised, cls) THEN Ret(fallback) ELSE e

\* --------------------------------------------------- bytes.decode('utf-8')
IsCont(b, i) == i <= Len(b) /\ b[i] >= 128 /\ b[i] <= 191

\* number of bytes of the well-formed UTF-8 sequence starting at b[i], or 0
Utf8Width(b, i) ==
  LET c == b[i]
  IN  CASE c < 128 -> 1
        [] c >= 194 /\ c <= 223 /\ IsCont(b, i + 1) -> 2
        [] c >= 224 /\ c <= 239 /\ IsCont(b, i + 1) /\ IsCont(b, i + 2)
             /\ (c = 224 => b[i + 1] >= 160) /\ (c = 237 => b[i + 1] <= 159) -> 3
        [] c >= 240 /\ c <= 244 /\ IsCont(b, i + 1) /\ IsCont(b, i + 2)
             /\ IsCont(b, i + 3)
             /\ (c = 240 => b[i + 1] >= 144) /\ (c = 244 => b[i + 1] <= 143) -> 4
        [] OTHER -> 0

Utf8CodePoint(b, i, w) ==
  CASE w = 1 -> b[i]
    [] w = 2 -> (b[i] - 192) * 64 + (b[i + 1] - 128)
    [] w = 3 -> (b[i] - 224) * 4096 + (b[i + 1] - 128) * 64 + (b[i + 2] - 128)
    [] OTHER -> (b[i] - 240) * 262144 + (b[i + 1] - 128) * 4096
                  + (b[i + 2] - 128) * 64 + (b[i + 3] - 128)

\* The one element of a singleton set.  Intermediate results are named by
\* binding them in a singleton set, which evaluates them once.
Only(S) == CHOOSE x \in S : TRUE

RECURSIVE Utf8From(_, _, _)
Utf8From(b, i, acc) ==
  IF i > Len(b)
  THEN Ret(PyStr(acc))
  ELSE Only({ IF w = 0
              THEN Raise("UnicodeDecodeError")
              ELSE Only({ Utf8From(b, j, a) :
                            j \in {i + w},
                            a \in {Append(acc, Utf8CodePoint(b, i, w))} }) :
              w \in {Utf8Width(b, i)} })

\* strict decoding: the text, or UnicodeDecodeError
BytesDecode(b) == Utf8From(b, 1, <<>>)

\* ------------------------------------------------------------ json.loads
JsonFail == [ok |-> FALSE, end |-> 0, type |-> "none"]
JsonOk(e, t) == [ok |-> TRUE, end |-> e, type |-> t]
IsDigit(c) == c >= 48 /\ c <= 57
IsHex(c) == IsDigit(c) \/ (c >= 65 /\ c <= 70) \/ (c >= 97 /\ c <= 102)
IsWs(c) == c \in {32, 9, 10, 13}
At(t, i, c) == i <= Len(t) /\ t[i] = c

RECURSIVE SkipWs(_, _)
SkipWs(t, i) == IF i <= Len(t) /\ IsWs(t[i]) THEN SkipWs(t, i + 1) ELSE i

RECURSIVE SkipDigits(_, _)
SkipDigits(t, i) == IF i <= Len(t) /\ IsDigit(t[i]) THEN SkipDigits(t, i + 1) ELSE i

StartsWith(t, i, lit) ==
  i + Len(lit) - 1 <= Len(t) /\ SubSeq(t, i, i + Len(lit) - 1) = lit

\* the end of -?(0|[1-9]\d*) starting at t[i], or 0
IntEnd(t, i) ==
  Only({ IF At(t, i1, 48) THEN i1 + 1
         ELSE Only({ IF e > i1 THEN e ELSE 0 : e \in {SkipDigits(t, i1)} }) :
         i1 \in {IF At(t, i, 45) THEN i + 1 ELSE i} })

\* the end of an optional (\.\d+) starting at t[i]
FracEnd(t, i) ==
  IF At(t, i, 46)
  THEN Only({ IF e > i + 1 THEN e ELSE i : e \in {SkipDigits(t, i + 1)} })
  ELSE i

\* the end of an optional ([eE][-+]?\d+) starting at t[i]
ExpEnd(t, i) ==
  IF At(t, i, 101) \/ At(t, i, 69)
  THEN Only({ Only({ IF e > d THEN e ELSE i : e \in {SkipDigits(t, d)} }) :
              d \in {IF At(t, i + 1, 43) \/ At(t, i + 1, 45)
                     THEN i + 2 ELSE i + 1} })
  ELSE i

\* -?(0|[1-9]\d*)(\.\d+)?([eE][-+]?\d+)?
ParseNumber(t, i) ==
  Only({ IF i2 = 0 THEN JsonFail
         ELSE Only({ JsonOk(i4, IF i4 = i2 THEN "int" ELSE "float") :
                     i4 \in {ExpEnd(t, FracEnd(t, i2))} }) :
         i2 \in {IntEnd(t, i)} })

\* the index after the closing quote of the string whose body starts at i
RECURSIVE StringEnd(_, _)
StringEnd(t, i) ==
  IF i > Len(t) \/ t[i] < 32 THEN 0
  ELSE IF t[i] = 34 THEN i + 1
  ELSE IF t[i] = 92
       THEN IF i + 1 > Len(t) THEN 0
            ELSE IF t[i + 1] \in {34, 92, 47, 98, 102, 110, 114, 116}
                 THEN StringEnd(t, i + 2)
            ELSE IF t[i + 1] = 117 /\ i + 5 <= Len(t)
                      /\ \A k \in 2..5 : IsHex(t[i + k])
                 THEN StringEnd(t, i + 6)
            ELSE 0
  ELSE StringEnd(t, i + 1)

ParseString(t, i) ==
  IF At(t, i, 34)
  THEN Only({ IF e = 0 THEN JsonFail ELSE JsonOk(e, "str") :
              e \in {StringEnd(t, i + 1)} })
  ELSE JsonFail

RECURSIVE ParseValue(_, _)
RECURSIVE ParseElements(_, _)
RECURSIVE ParseMembers(_, _)

\* the elements of an array after "[" or ",": the index after "]", or 0
ParseElements(t, i) ==
  Only({ IF ~v.ok THEN 0
         ELSE Only({ IF At(t, j, 93) THEN j + 1
                     ELSE IF At(t, j, 44) THEN ParseElements(t, j + 1)
                     ELSE 0 :
                     j \in {SkipWs(t, v.end)} }) :
         v \in {ParseValue(t, SkipWs(t, i))} })

\* the members of an object after "{" or ",": the index after "}", or 0
ParseMembers(t, i) ==
  Only({ IF ~k.ok THEN 0
         ELSE Only({ IF ~At(t, c, 58) THEN 0
                     ELSE Only({ IF ~v.ok THEN 0
                                 ELSE Only({ IF At(t, j, 125) THEN j + 1
                                             ELSE IF At(t, j, 44)
                                                  THEN ParseMembers(t, j + 1)
                                             ELSE 0 :
                                             j \in {SkipWs(t, v.end)} }) :
                                 v \in {ParseValue(t, SkipWs(t, c + 1))} }) :
                     c \in {SkipWs(t, k.end)} }) :
         k \in {ParseString(t, SkipWs(t, i))} })

\* one JSON value starting at t[i] (the scanner's scan_once)
ParseValue(t, i) ==
  IF i > Len(t) THEN JsonFail
  ELSE IF t[i] = 34 THEN ParseString(t, i)
  ELSE IF t[i] = 123
       THEN Only({ IF e = 0 THEN JsonFail ELSE JsonOk(e, "dict") :
                   e \in { Only({ IF At(t, j, 125) THEN j + 1
                                  ELSE ParseMembers(t, j) :
                                  j \in {SkipWs(t, i + 1)} }) } })
  ELSE IF t[i] = 91
       THEN Only({ IF e = 0 THEN JsonFail ELSE JsonOk(e, "list") :
                   e \in { Only({ IF At(t, j, 93) THEN j + 1
                                  ELSE ParseElements(t, j) :
                                  j \in {SkipWs(t, i + 1)} }) } })
  ELSE IF StartsWith(t, i, <<110, 117, 108, 108>>) THEN JsonOk(i + 4, "NoneType")
  ELSE IF StartsWith(t, i, <<116, 114, 117, 101>>) THEN JsonOk(i + 4, "bool")
  ELSE IF StartsWith(t, i, <<102, 97, 108, 115, 101>>) THEN JsonOk(i + 5, "bool")
  ELSE IF StartsWith(t, i, <<78, 97, 78>>) THEN JsonOk(i + 3, "float")
  ELSE IF StartsWith(t, i, <<73, 110, 102, 105, 110, 105, 116, 121>>)
       THEN JsonOk(i + 8, "float")
  ELSE IF StartsWith(t, i, <<45, 73, 110, 102, 105, 110, 105, 116, 121>>)
       THEN JsonOk(i + 9, "float")
  ELSE ParseNumber(t, i)

\* json.loads(text): the value (its type and its text), or JSONDecodeError.
\* JSON null is Python's None.
JsonLoads(t) ==
  Only({ IF v.ok /\ SkipWs(t, v.end) = Len(t) + 1
         THEN Ret(IF v.type = "NoneType" THEN NoneValue
                  ELSE [type |-> v.type,
                        val |-> SubSeq(t, SkipWs(t, 1), v.end - 1)])
         ELSE Raise("JSONDecodeError") :
         v \in {ParseValue(t, SkipWs(t, 1))} })

\* -------------------------------------------- the request, as werkzeug gives it
ExactJson == <<"application", "/", "json">>

RECURSIVE UntilSemicolon(_)
UntilSemicolon(v) ==
  IF v = <<>> \/ Head(v) = ";" THEN <<>> ELSE <<Head(v)>> \o UntilSemicolon(Tail(v))

\* request.mimetype: the content type without its parameters
Mimetype(ct) == UntilSemicolon(ct)

\* request.is_json
IsJsonMimetype(mt) ==
  \/ mt = ExactJson
  \/ Len(mt) >= 3 /\ mt[1] = "application" /\ mt[2] = "/" /\ mt[Len(mt)] = "+json"

\* the value of the header `name` in the WSGI environment, <<>> when absent
HeaderValue(hs, name) ==
  IF \E i \in DOMAIN hs : hs[i][1] = name
  THEN hs[CHOOSE i \in DOMAIN hs : hs[i][1] = name][2]
  ELSE <<>>

\* request.get_json(silent=True): None unless the mimetype is JSON and the
\* body is JSON text
GetJsonSilent(req) ==
  IF ~IsJsonMimetype(Mimetype(HeaderValue(req.headers, "Content-Type")))
  THEN Ret(NoneValue)
  ELSE LET d == BytesDecode(req.body)
       IN  IF d.raised # NoExc THEN Ret(NoneValue)
           ELSE TryExcept(JsonLoads(d.value.val), "ValueError", NoneValue)

\* response.get_data(as_text=True): RuntimeError for a response in direct
\* passthrough mode (a file being sent), else the body decoded strictly
GetDataAsText(resp) ==
  IF resp.passthrough THEN Raise("RuntimeError") ELSE BytesDecode(resp.body)

\* ----------------------------------------- Formatter.py: FlaskRequestFormatter
query_string(req) ==
  TryExcept(BytesDecode(req.query), "UnicodeEncodeError", PyStr(<<>>))

\* {header[0]: header[1] for header in headers if len(header) == 2}
headers(req) ==
  LET hs == req.headers
      kept == {i \in DOMAIN hs : Len(hs[i]) = 2}
      LastOf(n) == CHOOSE i \in kept :
                     hs[i][1] = n /\ \A j \in kept : hs[j][1] = n => j <= i
  IN  [n \in {hs[i][1] : i \in kept} |-> hs[LastOf(n)][2]]

payload_raw(req) ==
  TryExcept(BytesDecode(req.body), "UnicodeEncodeError", PyStr(<<>>))

payload_json(req) == GetJsonSilent(req)

payload_is_json_any_header(req) ==
  LET pj == payload_json(req)
  IN  [raised |-> pj.raised, value |-> PyBool(pj.value # NoneValue),
       touched |-> {"payload_json"}]
\* 'Content-Type' in headers_js and headers_js['Content-Type'] ==
\* 'application/json' and self.payload_json is not None
payload_is_json(req) ==
  LET headers_js == headers(req)
  IN  IF "Content-Type" \in DOMAIN headers_js
         /\ headers_js["Content-Type"] = ExactJson
      THEN LET pj == payload_json(req)
           IN  [raised |-> pj.raised, value |-> PyBool(pj.value # NoneValue),
                touched |-> {"headers", "payload_json"}]
      ELSE [raised |-> NoExc, value |-> PyBool(FALSE), touched |-> {"headers"}]

\* ---------------------------------------- Formatter.py: FlaskResponseFormatter
response_raw(resp) == TryExcept(GetDataAsText(resp), "RuntimeError", PyStr(<<>>))

response_json(resp) ==
  LET raw == response_raw(resp)
  IN  IF raw.raised # NoExc THEN raw
      ELSE TryExcept(JsonLoads(raw.value.val), "JSONDecodeError", NoneValue)

\* self.__response__.content_type == 'application/json' and
\* self.response_json is not None
response_is_json(resp) ==
  IF resp.ctype = ExactJson
  THEN LET rj == response_json(resp)
       IN  [raised |-> rj.raised, value |-> PyBool(rj.value # NoneValue),
            touched |-> IF rj.raised = NoExc
                        THEN {"response_raw", "response_json"}
                        ELSE IF response_raw(resp).raised = NoExc
                             THEN {"response_raw"} ELSE {}]
  ELSE [raised |-> NoExc, value |-> PyBool(FALSE), touched |-> {}]

\* ---------------------------------------------------- formatter inputs
B_object == <<123, 34, 97, 34, 58, 49, 125>>       \* {"a":1}
B_null == <<110, 117, 108, 108>>                    \* null
B_text == <<79, 107>>                               \* Ok
B_accent == <<34, 195, 169, 34>>                    \* a string holding U+00E9
B_truncated == <<123, 34, 97, 34, 58>>              \* {"a":
B_binary == <<255, 216, 255>>                       \* the first bytes of a JPEG
Bodies == {<<>>, B_object, B_null, B_text, B_accent, B_truncated, B_binary}

Queries == {<<>>, <<97, 61, 49>>, <<97, 61, 195, 169>>, <<97, 61, 255>>}

ContentTypes ==
  {ExactJson, ExactJson \o <<";", "charset=utf-8">>,
   <<"text", "/", "plain">>, <<"application", "/", "ld", "+json">>}

HeaderLists ==
  {<< <<"Host", <<"localhost">>>> >>} \cup
  {<< <<"Host", <<"localhost">>>>, <<"Content-Type", ct>> >> : ct \in ContentTypes}

RequestFormatters ==
  {[kind |-> "request", query |-> q, headers |-> hs, body |-> b,
    ctype |-> <<>>, passthrough |-> FALSE] :
     q \in Queries, hs \in HeaderLists, b \in Bodies}

ResponseFormatters ==
  {[kind |-> "response", query |-> <<>>, headers |-> <<>>, body |-> b,
    ctype |-> ct, passthrough |-> pt] :
     b \in Bodies, ct \in ContentTypes, pt \in BOOLEAN}

\* FlaskRequestFormatter(request=...) or FlaskResponseFormatter(response=...)
\* built inside the callback of test.py
InitFmt ==
  /\ Constructed(DefaultPrefix,
                 AppConfig(DefaultPrefix, PyList(<<500, 503>>), PyBool(FALSE)))
  /\ fmt \in RequestFormatters \cup ResponseFormatters
  /\ cache = {}
  /\ access = NoAccess

\* ----------------------------------------------------- formatter actions
\* functools.cached_property: the value is stored when the getter returns
Access(prop, e, touched) ==
  /\ access' = [prop |-> prop, result |-> e.value, raised |-> e.raised]
  /\ cache' = cache \cup touched \cup (IF e.raised = NoExc THEN {prop} ELSE {})
  /\ UNCHANGED <<fmt, procVars>>

get_query_string ==
  fmt.kind = "request" /\ Access("query_string", query_string(fmt), {})
get_payload_raw ==
  fmt.kind = "request" /\ Access("payload_raw", payload_raw(fmt), {})
get_payload_json ==
  fmt.kind = "request" /\ Access("payload_json", payload_json(fmt), {})
get_payload_is_json ==
  /\ fmt.kind = "request"
  /\ LET e == payload_is_json(fmt) IN Access("payload_is_json", e, e.touched)
get_response_raw ==
  fmt.kind = "response" /\ Access("response_raw", response_raw(fmt), {})
get_response_json ==
  /\ fmt.kind = "response"
  /\ Access("response_json", response_json(fmt),
            IF response_raw(fmt).raised = NoExc THEN {"response_raw"} ELSE {})
get_response_is_json ==
  /\ fmt.kind = "response"
  /\ LET e == response_is_json(fmt) IN Access("response_is_json", e, e.touched)

NextFmt ==
  \/ get_query_string
  \/ get_payload_raw
  \/ get_payload_json
  \/ get_payload_is_json
  \/ get_response_raw
  \/ get_response_json
  \/ get_response_is_json

SpecFmt == InitFmt /\ [][NextFmt]_vars

\* ------------------------------------------------ properties: the processor
\* The filter as the application configured it (test.py lines 10 and 14).
ConfiguredCodes == config[<<"REQUEST_RESPONSE_PROCESSOR", "_STATUS_CODES">>].val
ConfiguredExcludeOnly ==
  config[<<"REQUEST_RESPONSE_PROCESSOR", "_STATUS_CODES_EXCLUDE_ONLY">>].val = <<1>>
Listed(s) == \E i \in DOMAIN ConfiguredCodes : ConfiguredCodes[i] = s
FilterHolds(s) ==
  ConfiguredCodes = <<>> \/ (Listed(s) /\ ~ConfiguredExcludeOnly)
                         \/ (~Listed(s) /\ ConfiguredExcludeOnly)
Completes(r) == phase[r] # "completed" /\ phase'[r] = "completed"

\* C1: with a callback registered and the before-hook run, the after-hook
\* calls the callback iff the configured list is empty, or the status code is
\* in the list XOR exclude-only is set.
C1_DispatchPredicate ==
  (last.r # 0 /\ last.slot # None /\ last.gstart # NoTime)
    => ((last.calls > 0) <=> FilterHolds(last.status))

\* the empty list fires although exclude-only is set
C1_Witness ==
  /\ last.r # 0 /\ last.slot # None /\ last.gstart # NoTime
  /\ ConfiguredCodes = <<>> /\ ConfiguredExcludeOnly
  /\ last.calls = 1

\* C2: whatever the callback raises, after_request returns the response it
\* was given and raises nothing.
C2_CallbackFailureContained ==
  (last.r # 0 /\ last.calls > 0 /\ last.raised # NoExc)
    => /\ last.returned = Response(last.r, last.status)
       /\ last.propagated = NoExc

C2_Witness ==
  /\ last.calls = 1 /\ last.raised = "KeyboardInterrupt"
  /\ last.returned = Response(last.r, last.status)

\* C3: a dispatch calls exactly the function registered last, and none
\* before the first registration.
C3_LatestRegistrationWins ==
  [][\A r \in Requests :
       Completes(r) =>
         /\ last'.calls > 0 => (nregs > 0 /\ last'.fn = lastRegistered)
         /\ nregs = 0 => last'.calls = 0]_vars

\* a dispatch after the second registration
C3_Witness ==
  last.calls = 1 /\ last.nregs = 2 /\ last.fn = lastRegistered /\ nregs = 2

C9_OwnStartTime ==
  last.calls > 0 =>
    /\ last.start_arg = recorded[last.r]
    /\ last.start_arg < last.end_arg

\* another request's before-hook ran between the two hooks of this request
C9_Witness ==
  /\ last.calls > 0
  /\ \E r \in Requests :
       /\ r # last.r
       /\ recorded[last.r] < recorded[r]
       /\ recorded[r] < last.end_arg

\* C10: without a recorded start time the callback is not called; when the
\* filter holds and a callback is registered the failure is logged; nothing
\* propagates and the response is returned.
C10_MissingStartTime ==
  (last.r # 0 /\ last.gstart = NoTime)
    => /\ last.calls = 0
       /\ last.propagated = NoExc
       /\ last.returned = Response(last.r, last.status)
       /\ (FilterHolds(last.status) /\ last.slot # None) => last.logged = 1

C10_Witness ==
  /\ last.r # 0 /\ last.gstart = NoTime
  /\ FilterHolds(last.status) /\ last.slot # None
  /\ last.logged = 1 /\ last.calls = 0

\* C7: a blank prefix gives the default labels; a STATUS_CODES value that is
\* absent or no list gives the empty filter, with which every status code is
\* dispatched; an EXCLUDE_ONLY value that is absent or no bool gives false.
IsBlank(p) == \A i \in DOMAIN p : p[i] = " "
NotOfType(key, t) == key \notin DOMAIN config \/ config[key].type # t
C7_ConfigNormalized ==
  /\ IsBlank(prefix) =>
       /\ label_status_codes = <<"REQUEST_RESPONSE_PROCESSOR", "_STATUS_CODES">>
       /\ label_status_codes_exclude_only =
            <<"REQUEST_RESPONSE_PROCESSOR", "_STATUS_CODES_EXCLUDE_ONLY">>
  /\ NotOfType(label_status_codes, "list") =>
       /\ filter_status_codes = <<>>
       /\ (last.r # 0 /\ last.slot # None /\ last.gstart # NoTime)
            => last.calls = 1
  /\ NotOfType(label_status_codes_exclude_only, "bool") =>
       filter_status_codes_exclude_only = FALSE

\* a blank prefix, a tuple for the list and an int for the flag
C7_Witness ==
  /\ IsBlank(prefix) /\ prefix # <<>>
  /\ label_status_codes \in DOMAIN config
  /\ config[label_status_codes].type = "tuple"
  /\ label_status_codes_exclude_only \in DOMAIN config
  /\ config[label_status_codes_exclude_only].type = "int"
  /\ last.calls = 1 /\ last.status = 200


\* ----------------------------------------------- properties: the formatters
\* the Content-Type header the request declares is exactly application/json
DeclaresExactJson ==
  \E i \in DOMAIN fmt.headers : fmt.headers[i] = <<"Content-Type", ExactJson>>
NonNull(e) == e.raised = NoExc /\ e.value # NoneValue
Undecodable(b) == BytesDecode(b).raised # NoExc

\* C4: payload_is_json is true iff the declared Content-Type is exactly
\* application/json and payload_json is not None; response_is_json is true
\* iff the response's content type is exactly application/json and
\* response_json is not None.
C4_IsJsonIff ==
  /\ access.prop = "payload_is_json" =>
       /\ access.raised = NoExc
       /\ access.result \in {PyBool(TRUE), PyBool(FALSE)}
       /\ access.result = PyBool(TRUE)
            <=> (DeclaresExactJson /\ NonNull(payload_json(fmt)))
  /\ access.prop = "response_is_json" =>
       ((access.raised = NoExc /\ access.result = PyBool(TRUE))
          <=> (fmt.ctype = ExactJson /\ NonNull(response_json(fmt))))

\* the body {"a":1} sent as text/plain
C4_Witness ==
  /\ access.prop = "payload_is_json"
  /\ fmt.body = <<123, 34, 97, 34, 58, 49, 125>>
  /\ \E i \in DOMAIN fmt.headers :
       fmt.headers[i] = <<"Content-Type", <<"text", "/", "plain">>>>
  /\ access.result = PyBool(FALSE)

\* C5: for a response body that cannot be given as text, response_raw is ''
\* and response_is_json is False, and neither raises.
C5_BinaryResponseDegrades ==
  (fmt.kind = "response" /\ (fmt.passthrough \/ Undecodable(fmt.body))) =>
    /\ access.prop = "response_raw" =>
         (access.raised = NoExc /\ access.result = PyStr(<<>>))
    /\ access.prop = "response_is_json" =>
         (access.raised = NoExc /\ access.result = PyBool(FALSE))

\* C6: query_string and payload_raw never raise; bytes that are not UTF-8
\* give ''.
C6_RequestDecodeTotal ==
  /\ access.prop = "query_string" =>
       /\ access.raised = NoExc
       /\ Undecodable(fmt.query) => access.result = PyStr(<<>>)
  /\ access.prop = "payload_raw" =>
       /\ access.raised = NoExc
       /\ Undecodable(fmt.body) => access.result = PyStr(<<>>)

====
